---- MODULE Spec2Model ----
(***************************************************************************)
(* Model of src/src/CoordinationSpace.py: coordination space of N robots,  *)
(* its construction from the robots' trajectories, the grid search over it *)
(* and the resampling of a trajectory.                                     *)
(*                                                                         *)
(* Python lists are sequences; a Python subscript l[i] is At(l, i), so the *)
(* indices in the operators below are the 0-based indices of the source.   *)
(***************************************************************************)
EXTENDS Integers, Sequences, FiniteSets, TLC

VARIABLES robots, cSpace, openList, closedList, q, successors, result,
          searches, raised, pc, point, neighbors, newTrajectory

vars == <<robots, cSpace, openList, closedList, q, successors, result,
          searches, raised, pc, point, neighbors, newTrajectory>>

\* Longest trajectory (number of states) of the first and of the second robot
\* of the two-robot pipeline.
MaxLen0 == 4
MaxLen == 3
\* Number of aStarSearch calls the caller makes on one coordination space.
MaxSearches == 2
\* Longest trajectory of a robot of the N-robot specification.
MaxLenN == 3
\* Largest number of robots of the N-robot specification.
MaxRobots == 3
\* Raw trajectories of the resampling specification: states and segment length.
MaxRaw == 3
MaxSeg == 3

robotSize == 1

At(list, i) == list[i + 1]
Range(s) == {s[i] : i \in DOMAIN s}
Abs(a) == IF a < 0 THEN -a ELSE a
Max(a, b) == IF a < b THEN b ELSE a

\* x ** 0.5 < bound for an integer x >= 0 and an integer bound >= 0: the
\* square root of a double is correctly rounded and monotone, and exact on
\* perfect squares, so the comparison is the one of the squares.
SqrtLess(x, bound) == x < bound * bound

(***************************************************************************)
(* CollisionClassifier and CoordinationSpaceBuilder                        *)
(***************************************************************************)
checkCollisions(A1, s1, A2, s2) ==
    IF SqrtLess((At(At(At(robots, A1), s1), 1) - At(At(At(robots, A2), s2), 1)) ^ 2 +
                (At(At(At(robots, A1), s1), 2) - At(At(At(robots, A2), s2), 2)) ^ 2,
                2 * robotSize)
    THEN TRUE
    ELSE FALSE

\* range(A1 + 1, len(configuration)) starts at the robot after A1.
FirstPartner_skipsNext(A1) == A1 + 2
FirstPartner(A1) == A1 + 1

RECURSIVE PartnerLoop(_, _, _, _)
PartnerLoop(configuration, A1, A2, collision) ==
    IF A2 >= Len(configuration)
    THEN collision
    ELSE PartnerLoop(configuration, A1, A2 + 1,
             IF checkCollisions(A1, At(configuration, A1), A2, At(configuration, A2))
             THEN TRUE
             ELSE collision)

RECURSIVE CollisionLoop(_, _, _)
CollisionLoop(configuration, A1, collision) ==
    IF A1 >= Len(configuration)
    THEN collision
    ELSE CollisionLoop(configuration, A1 + 1,
             IF collision = FALSE
             THEN PartnerLoop(configuration, A1, FirstPartner(A1), collision)
             ELSE collision)

BlockedCell == <<1, 0, 0, 0, <<0, 0>>>>
FreeCell == <<0, 0, 0, 0, <<0, 0>>>>

RECURSIVE createCoordinationSpace(_, _, _)
createCoordinationSpace(n, depth, configuration) ==
    IF depth = Len(n) - 1
    THEN [i \in 1 .. At(n, depth) |->
            IF CollisionLoop(Append(configuration, i - 1), 0, FALSE)
            THEN BlockedCell
            ELSE FreeCell]
    ELSE [i \in 1 .. At(n, depth) |->
            createCoordinationSpace(n, depth + 1, Append(configuration, i - 1))]

createMatrix == createCoordinationSpace([r \in 1 .. Len(robots) |-> Len(robots[r])], 0, <<>>)

(***************************************************************************)
(* PathSearch.  A node is the list [state, g, h, f, parent, [x, y]].  h is *)
(* the square root of an integer and is kept as that integer (its          *)
(* radicand); f = g + h is kept as the pair (i, r) standing for            *)
(* i + sqrt(r).  Comparisons are exact.                                    *)
(***************************************************************************)
\* sqrt(a) <= d + sqrt(b), for naturals a, b and an integer d
RootLeq(a, d, b) ==
    IF d >= 0
    THEN LET t == a - b - d * d IN t <= 0 \/ t * t <= 4 * d * d * b
    ELSE LET u == b - a - d * d IN u >= 0 /\ 4 * d * d * a <= u * u

FLeq(f1, f2) == RootLeq(f1.r, f2.i - f1.i, f2.r)
FLess(f1, f2) == ~FLeq(f2, f1)

RECURSIVE ListLess(_, _)
ListLess(s, t) ==
    IF s = <<>> THEN t # <<>>
    ELSE IF t = <<>> THEN FALSE
    ELSE IF Head(s) # Head(t) THEN Head(s) < Head(t)
    ELSE ListLess(Tail(s), Tail(t))

\* Python's order on two node lists: element by element, first difference.
NodeLess(a, b) ==
    IF a.state # b.state THEN a.state < b.state
    ELSE IF a.g # b.g THEN a.g < b.g
    ELSE IF a.h # b.h THEN a.h < b.h
    ELSE IF a.f # b.f THEN FLess(a.f, b.f)
    ELSE IF a.parent # b.parent THEN ListLess(a.parent, b.parent)
    ELSE ListLess(a.xy, b.xy)

\* A heap is kept as the sorted sequence of its items: heappop returns a
\* smallest item of the heap, which is all that the search observes of it.
heappush(heap, item) ==
    LET k == Cardinality({i \in DOMAIN heap : ~NodeLess(item, heap[i])})
    IN SubSeq(heap, 1, k) \o <<item>> \o SubSeq(heap, k + 1, Len(heap))

heappop(heap) == [item |-> Head(heap), heap |-> Tail(heap)]

distTwoPointsIn3D(x1, y1, x2, y2) ==
    LET xd == x2 - x1
        yd == y2 - y1
    IN xd ^ 2 + yd ^ 2

costToGo(p) ==
    LET x1 == At(p, 0)
        y1 == At(p, 1)
        x2 == Len(cSpace)
        y2 == Len(At(cSpace, 0))
    IN distTwoPointsIn3D(x1, y1, x2, y2)

\* itertools.product(*combinations), in the order it yields the tuples
RECURSIVE product(_)
product(combinations) ==
    IF combinations = <<>>
    THEN << <<>> >>
    ELSE LET rest == product(Tail(combinations))
             first == Head(combinations)
             row(a) == [k \in 1 .. Len(rest) |-> <<a>> \o rest[k]]
         IN row(first[1]) \o row(first[2]) \o row(first[3])

\* cSpace[x][y] != 1: the left side is a list, the right an int; Python 2
\* never finds the two equal.
CellDiffersFromOne(cell) == TRUE

\* The bounds test of findNeighbors; neighbor[1] raises IndexError on a
\* one-element neighbor once the tests on neighbor[0] have passed.
BoundsRaises(neighbor) ==
    /\ Len(neighbor) < 2
    /\ At(neighbor, 0) >= 0 /\ At(neighbor, 0) < Len(cSpace)

InBounds(neighbor) ==
    /\ At(neighbor, 0) >= 0 /\ At(neighbor, 0) < Len(cSpace)
    /\ At(neighbor, 1) >= 0 /\ At(neighbor, 1) < Len(At(cSpace, 0))

Keep(p, neighbor) ==
    /\ InBounds(neighbor)
    /\ neighbor # p
    /\ CellDiffersFromOne(At(At(cSpace, At(neighbor, 0)), At(neighbor, 1)))

findNeighbors(p) ==
    LET combinations == [k \in 1 .. Len(p) |-> <<p[k] - 1, p[k], p[k] + 1>>]
        all == product(combinations)
    IN IF \E k \in DOMAIN all : BoundsRaises(all[k])
       THEN [raised |-> "IndexError", value |-> <<>>]
       ELSE [raised |-> "none", value |-> SelectSeq(all, LAMBDA nb : Keep(p, nb))]

\* node[3] <= successor[3]
NotWorse_strict(node, successor) == FLess(node.f, successor.f)
NotWorse(node, successor) == FLeq(node.f, successor.f)

skipSuccessor(list, successor) ==
    \E k \in DOMAIN list :
        /\ list[k].xy = successor.xy
        /\ NotWorse(list[k], successor)

\* The node that the first cell of the space is once [0, 0] is appended to it.
NodeOfCell(cell) ==
    [state |-> At(cell, 0), g |-> At(cell, 1), h |-> At(cell, 2),
     f |-> [i |-> At(cell, 3), r |-> 0], parent |-> At(cell, 4), xy |-> At(cell, 5)]

Successor(node, s) ==
    LET g == node.g + 1
        h == costToGo(s)
    IN [state |-> At(At(At(cSpace, At(s, 0)), At(s, 1)), 0),
        g |-> g, h |-> h, f |-> [i |-> g, r |-> h],
        parent |-> node.xy, xy |-> s]

IsGoal(s) == At(s, 0) = Len(cSpace) - 1 /\ At(s, 1) = Len(At(cSpace, 0)) - 1

NoNode == [state |-> 0, g |-> 0, h |-> 0, f |-> [i |-> 0, r |-> 0],
           parent |-> <<>>, xy |-> <<>>]

\* The values aStarSearch returns: a neighbor, which is a list of
\* coordinates, or the string "could not find path", kept as its characters.
Failure == [kind |-> "str",
            value |-> <<"c", "o", "u", "l", "d", " ", "n", "o", "t", " ",
                        "f", "i", "n", "d", " ", "p", "a", "t", "h">>]
NoResult == [kind |-> "none", value |-> <<>>]

(***************************************************************************)
(* addPath(parent).  parent[5] raises IndexError on a value of fewer than  *)
(* six items.  Otherwise it is compared with [0, 0]: a character of a      *)
(* string never equals a list.  The body of the loop evaluates 5[0], a     *)
(* TypeError, before it stores anything.                                   *)
(***************************************************************************)
ItemIsOrigin(parent) == parent.kind = "node" /\ At(parent.value, 5) = <<0, 0>>

addPath_marks(parent, space) ==
    IF parent.kind = "list"
    THEN [raised |-> "IndexError",
          space |-> [space EXCEPT ![At(parent.value, 0) + 1][At(parent.value, 1) + 1][1] = 2]]
    ELSE [raised |-> "TypeError", space |-> space]

addPath(parent, space) ==
    IF Len(parent.value) <= 5
    THEN [raised |-> "IndexError", space |-> space]
    ELSE IF ~ItemIsOrigin(parent)
    THEN [raised |-> "TypeError", space |-> space]
    ELSE [raised |-> "none", space |-> space]

(***************************************************************************)
(* Inputs of the two-robot pipeline: trajectories as normalizeTrajectory   *)
(* leaves them, points at a constant spacing along a path.                 *)
(***************************************************************************)
Steps == {<<1, 0>>, <<0, 1>>}
StateAt(p) == <<2, p[1], p[2], 0>>

RECURSIVE Paths(_, _, _)
Paths(start, k, steps) ==
    IF k = 1
    THEN {<<StateAt(start)>>}
    ELSE {Append(p, StateAt(<<p[Len(p)][2] + s[1], p[Len(p)][3] + s[2]>>)) :
            p \in Paths(start, k - 1, steps), s \in steps}

\* The first robot moves along the x axis.  The second starts beside it or
\* two radii from it and moves along either axis, or starts far from it,
\* where every cell is free whatever its path, and moves along the x axis.
Trajectories0 == UNION {Paths(<<0, 0>>, k, {<<1, 0>>}) : k \in 1 .. MaxLen0}
Starts1 == {<<1, 1>>, <<2, 0>>}
FarStart1 == <<0, 10>>
Trajectories1 ==
    UNION ({Paths(s, k, Steps) : s \in Starts1, k \in 1 .. MaxLen} \cup
           {Paths(FarStart1, k, {<<1, 0>>}) : k \in 1 .. MaxLen})

Init ==
    /\ robots \in {<<a, b>> : a \in Trajectories0, b \in Trajectories1}
    /\ cSpace = <<>>
    /\ openList = <<>>
    /\ closedList = <<>>
    /\ q = NoNode
    /\ successors = <<>>
    /\ result = NoResult
    /\ searches = 0
    /\ raised = "none"
    /\ pc = "createMatrix"
    /\ point = <<>>
    /\ neighbors = <<>>
    /\ newTrajectory = <<>>

\* cSpace = createMatrix()
CreateMatrix ==
    /\ pc = "createMatrix"
    /\ cSpace' = createMatrix
    /\ pc' = "idle"
    /\ UNCHANGED <<robots, openList, closedList, q, successors, result,
                   searches, raised, point, neighbors, newTrajectory>>

\* aStarSearch, up to the loop
SearchStart ==
    /\ pc = "idle"
    /\ searches < MaxSearches
    /\ LET node == Append(At(At(cSpace, 0), 0), <<0, 0>>)
       IN /\ cSpace' = [cSpace EXCEPT ![1][1] = node]
          /\ openList' = heappush(<<>>, NodeOfCell(node))
    /\ closedList' = <<>>
    /\ q' = NoNode
    /\ successors' = <<>>
    /\ searches' = searches + 1
    /\ raised' = "none"
    /\ pc' = "while"
    /\ UNCHANGED <<robots, result, point, neighbors, newTrajectory>>

\* while openList: q = heappop(openList); the for loop's iterable is computed
SearchPop ==
    /\ pc = "while"
    /\ openList # <<>>
    /\ q' = heappop(openList).item
    /\ openList' = heappop(openList).heap
    /\ successors' = findNeighbors(heappop(openList).item.xy).value
    /\ pc' = "for"
    /\ UNCHANGED <<robots, cSpace, closedList, result, searches, raised, point, neighbors, newTrajectory>>

\* the successor is the goal: return successor
SearchGoal ==
    /\ pc = "for"
    /\ successors # <<>>
    /\ IsGoal(Head(successors))
    /\ result' = [kind |-> "list", value |-> Head(successors)]
    /\ pc' = "idle"
    /\ UNCHANGED <<robots, cSpace, openList, closedList, q, successors,
                   searches, raised, point, neighbors, newTrajectory>>

\* one iteration of the for loop on a successor that is not the goal
SearchSuccessor ==
    /\ pc = "for"
    /\ successors # <<>>
    /\ ~IsGoal(Head(successors))
    /\ LET successor == Successor(q, Head(successors))
       IN openList' = IF ~skipSuccessor(openList, successor) /\ ~skipSuccessor(closedList, successor)
                      THEN heappush(openList, successor)
                      ELSE openList
    /\ successors' = Tail(successors)
    /\ UNCHANGED <<robots, cSpace, closedList, q, result, searches, raised, pc, point, neighbors, newTrajectory>>

\* the for loop is over: heappush(closedList, q)
SearchClose ==
    /\ pc = "for"
    /\ successors = <<>>
    /\ closedList' = heappush(closedList, q)
    /\ pc' = "while"
    /\ UNCHANGED <<robots, cSpace, openList, q, successors, result, searches,
                   raised, point, neighbors, newTrajectory>>

\* openList is empty: return "could not find path"
SearchFail ==
    /\ pc = "while"
    /\ openList = <<>>
    /\ result' = Failure
    /\ pc' = "idle"
    /\ UNCHANGED <<robots, cSpace, openList, closedList, q, successors,
                   searches, raised, point, neighbors, newTrajectory>>

\* addPath(parent), on the value the last search returned
AddPath ==
    /\ pc = "idle"
    /\ result # NoResult
    /\ raised = "none"
    /\ cSpace' = addPath(result, cSpace).space
    /\ raised' = addPath(result, cSpace).raised
    /\ UNCHANGED <<robots, openList, closedList, q, successors, result,
                   searches, pc, point, neighbors, newTrajectory>>

SearchStep == SearchPop \/ SearchGoal \/ SearchSuccessor \/ SearchClose \/ SearchFail

Next ==
    \/ CreateMatrix
    \/ SearchStart
    \/ SearchPop
    \/ SearchGoal
    \/ SearchSuccessor
    \/ SearchClose
    \/ SearchFail
    \/ AddPath

Spec == Init /\ [][Next]_vars

\* A call of aStarSearch runs until it returns.
FairSpec == Spec /\ WF_vars(SearchStep)
(***************************************************************************)
(* N robots: the builder and findNeighbors on a space of 1 .. MaxRobots    *)
(* dimensions.                                                             *)
(***************************************************************************)
\* The robots start two radii apart, on the corners of a square; the even
\* ones move along the x axis, the odd ones along the y axis.
StartOf(r) == <<2 * (r % 2), 2 * (r \div 2)>>
StepsOf(r) == IF r % 2 = 0 THEN {<<1, 0>>} ELSE {<<0, 1>>}
TrajectoriesN(r) == UNION {Paths(StartOf(r), k, StepsOf(r)) : k \in 1 .. MaxLenN}

RECURSIVE RobotLists(_)
RobotLists(n) ==
    IF n = 0
    THEN {<<>>}
    ELSE {Append(l, t) : l \in RobotLists(n - 1), t \in TrajectoriesN(n - 1)}

\* the joint configurations of the robots: one state index for each robot
RECURSIVE Configurations(_)
Configurations(n) ==
    IF n = 0
    THEN {<<>>}
    ELSE {Append(c, i) : c \in Configurations(n - 1), i \in 0 .. Len(robots[n]) - 1}

InitN ==
    /\ robots \in UNION {RobotLists(n) : n \in 1 .. MaxRobots}
    /\ cSpace = <<>>
    /\ openList = <<>>
    /\ closedList = <<>>
    /\ q = NoNode
    /\ successors = <<>>
    /\ result = NoResult
    /\ searches = 0
    /\ raised = "none"
    /\ pc = "createMatrix"
    /\ point = <<>>
    /\ neighbors = <<>>
    /\ newTrajectory = <<>>

\* findNeighbors(point), on a point of the grid
FindNeighbors ==
    /\ pc = "idle"
    /\ point = <<>>
    /\ \E p \in Configurations(Len(robots)) :
          /\ point' = p
          /\ neighbors' = findNeighbors(p).value
          /\ raised' = findNeighbors(p).raised
    /\ UNCHANGED <<robots, cSpace, openList, closedList, q, successors, result,
                   searches, pc, newTrajectory>>

NextN ==
    \/ CreateMatrix
    \/ FindNeighbors

SpecN == InitN /\ [][NextN]_vars
(***************************************************************************)
(* TrajectoryNormalizer.  The numbers of a raw trajectory and of its       *)
(* resampling are rationals [n, d] in lowest terms with d > 0; the         *)
(* segments of the raw trajectories below are parallel to an axis, so      *)
(* every square root taken is the root of a square.                        *)
(***************************************************************************)
RECURSIVE GCD(_, _)
GCD(a, b) == IF b = 0 THEN a ELSE GCD(b, a % b)

Rat(n, d) ==
    LET g == GCD(Abs(n), Abs(d))
        sign == IF d < 0 THEN -1 ELSE 1
    IN [n |-> sign * (n \div g), d |-> sign * (d \div g)]

Zero == Rat(0, 1)
RAdd(a, b) == Rat(a.n * b.d + b.n * a.d, a.d * b.d)
RSub(a, b) == Rat(a.n * b.d - b.n * a.d, a.d * b.d)
RMul(a, b) == Rat(a.n * b.n, a.d * b.d)
RDiv(a, b) == Rat(a.n * b.d, a.d * b.n)
RLess(a, b) == a.n * b.d < b.n * a.d
RFloor(a) == Rat(a.n \div a.d, 1)
ISqrt(n) == CHOOSE k \in 0 .. n : k * k = n
RSqrt(a) == Rat(ISqrt(a.n), ISqrt(a.d))
RSquare(a) == RMul(a, a)

\* math.sqrt((currX - prevX) ** 2 + (currY - prevY) ** 2)
StepLength(currX, currY, prevX, prevY) ==
    RSqrt(RAdd(RSquare(RSub(currX, prevX)), RSquare(RSub(currY, prevY))))

RECURSIVE LengthLoop(_, _, _, _, _)
LengthLoop(trajectory, k, prevX, prevY, trajectoryLength) ==
    IF k >= Len(trajectory)
    THEN trajectoryLength
    ELSE LET currX == At(At(trajectory, k), 1)
             currY == At(At(trajectory, k), 2)
         IN LengthLoop(trajectory, k + 1, currX, currY,
                       RAdd(trajectoryLength, StepLength(currX, currY, prevX, prevY)))

findTrajectoryLength(robot) ==
    LengthLoop(At(robots, robot), 0,
               At(At(At(robots, robot), 0), 1), At(At(At(robots, robot), 0), 2), Zero)

\* time = 0.5
time == Rat(1, 2)

\* while distOldStates > distNewStates
CatchUp(distOldStates, distNewStates) == RLess(distNewStates, distOldStates)

RECURSIVE WhileLoop(_, _, _, _, _, _, _, _)
WhileLoop(state, currX, currY, prevX, prevY, distOldStates, intervalLength, acc) ==
    IF CatchUp(distOldStates, acc.distNewStates)
    THEN LET length == StepLength(currX, currY, prevX, prevY)
             distance == RSub(distOldStates, acc.distNewStates)
             addDiff == RSub(length, distance)
             dX == RMul(RDiv(RSub(currX, prevX), length), addDiff)
             dY == RMul(RDiv(RSub(currY, prevY), length), addDiff)
             newX == RAdd(prevX, dX)
             newY == RAdd(prevY, dY)
         IN WhileLoop(state, currX, currY, prevX, prevY, distOldStates, intervalLength,
                [distNewStates |-> RAdd(acc.distNewStates, intervalLength),
                 newTrajectory |-> Append(acc.newTrajectory,
                                          <<At(state, 0), newX, newY, At(state, 3)>>)])
    ELSE acc

RECURSIVE StateLoop(_, _, _, _, _, _, _)
StateLoop(trajectory, k, prevX, prevY, distOldStates, intervalLength, acc) ==
    IF k >= Len(trajectory)
    THEN acc.newTrajectory
    ELSE LET state == At(trajectory, k)
             currX == At(state, 1)
             currY == At(state, 2)
             dist == RAdd(distOldStates, StepLength(currX, currY, prevX, prevY))
         IN StateLoop(trajectory, k + 1, currX, currY, dist, intervalLength,
                      WhileLoop(state, currX, currY, prevX, prevY, dist, intervalLength, acc))

\* A division by zero raises ZeroDivisionError: of the length by speed * time
\* when the speed is 0, of the length by intervals when the floor is 0.
normalizeTrajectory(robot) ==
    LET trajectoryLength == findTrajectoryLength(robot)
        speed == At(At(At(robots, robot), 0), 0)
    IN IF RMul(speed, time) = Zero
       THEN [raised |-> "ZeroDivisionError", value |-> <<>>]
       ELSE LET intervals == RFloor(RDiv(trajectoryLength, RMul(speed, time)))
            IN IF intervals = Zero
               THEN [raised |-> "ZeroDivisionError", value |-> <<>>]
               ELSE [raised |-> "none",
                     value |-> StateLoop(At(robots, robot), 0,
                                   At(At(At(robots, robot), 0), 1),
                                   At(At(At(robots, robot), 0), 2),
                                   Zero, RDiv(trajectoryLength, intervals),
                                   [distNewStates |-> Zero, newTrajectory |-> <<>>])]

\* for robot in range(len(robots)): robots[robot] = normalizeTrajectory(robot)
RECURSIVE normalizeAllTrajectories(_, _)
normalizeAllTrajectories(robot, list) ==
    IF robot >= Len(list)
    THEN [raised |-> "none", robots |-> list]
    ELSE IF normalizeTrajectory(robot).raised # "none"
    THEN [raised |-> normalizeTrajectory(robot).raised, robots |-> list]
    ELSE normalizeAllTrajectories(robot + 1,
             [list EXCEPT ![robot + 1] = normalizeTrajectory(robot).value])

\* Raw trajectories, as extractPolicies assembles them: the first state
\* carries a fifth item, True.
Speeds == {1, 2, 4}
Moves == {<<0, 0>>} \cup
         UNION {{<<l, 0>>, <<0, l>>, <<-l, 0>>} : l \in 1 .. MaxSeg}
RawState(v, x, y) == <<Rat(v, 1), Rat(x, 1), Rat(y, 1), Zero>>

RECURSIVE RawPaths(_, _)
RawPaths(v, k) ==
    IF k = 1
    THEN {<<Append(RawState(v, 0, 0), TRUE)>>}
    ELSE {Append(p, RawState(v, p[Len(p)][2].n + m[1], p[Len(p)][3].n + m[2])) :
            p \in RawPaths(v, k - 1), m \in Moves}

InitNorm ==
    /\ robots \in {<<t>> : t \in UNION {RawPaths(v, k) : v \in Speeds, k \in 1 .. MaxRaw}}
    /\ cSpace = <<>>
    /\ openList = <<>>
    /\ closedList = <<>>
    /\ q = NoNode
    /\ successors = <<>>
    /\ result = NoResult
    /\ searches = 0
    /\ raised = "none"
    /\ pc = "raw"
    /\ point = <<>>
    /\ neighbors = <<>>
    /\ newTrajectory = <<>>

\* a call normalizeTrajectory(0); its value is kept in newTrajectory
NormalizeTrajectory ==
    /\ pc = "raw"
    /\ newTrajectory' = normalizeTrajectory(0).value
    /\ raised' = normalizeTrajectory(0).raised
    /\ pc' = "resampled"
    /\ UNCHANGED <<robots, cSpace, openList, closedList, q, successors, result,
                   searches, point, neighbors>>

\* normalizeAllTrajectories()
NormalizeAllTrajectories ==
    /\ pc = "resampled"
    /\ robots' = normalizeAllTrajectories(0, robots).robots
    /\ raised' = normalizeAllTrajectories(0, robots).raised
    /\ pc' = "normalized"
    /\ UNCHANGED <<cSpace, openList, closedList, q, successors, result,
                   searches, point, neighbors, newTrajectory>>

NextNorm ==
    \/ NormalizeTrajectory
    \/ NormalizeAllTrajectories

SpecNorm == InitNorm /\ [][NextNorm]_vars
(***************************************************************************)
(* Properties                                                              *)
(***************************************************************************)
Flag(x, y) == At(At(At(cSpace, x), y), 0)
Cells == {<<x, y>> : x \in 0 .. Len(cSpace) - 1, y \in 0 .. Len(At(cSpace, 0)) - 1}
Returned == pc = "idle" /\ result # NoResult
NoBlocked == \A c \in Cells : Flag(c[1], c[2]) = 0
Recorded == Range(openList) \cup Range(closedList)

RECURSIVE CellAt(_, _)
CellAt(space, c) == IF c = <<>> THEN space ELSE CellAt(At(space, Head(c)), Tail(c))

\* C1: the search moves only through free cells: every neighbor that
\* findNeighbors returned to the search, and every node that the search
\* pushed to openList from such a neighbor, has blocked flag 0.
C1_NeighborsAreFree ==
    /\ \A k \in DOMAIN successors : Flag(At(successors[k], 0), At(successors[k], 1)) = 0
    /\ \A k \in DOMAIN openList : openList[k].g > 0 => openList[k].state = 0

\* C2: on a space whose goal cell is blocked, aStarSearch returns the
\* failure value "could not find path" and never the goal.
C2_BlockedGoalFails ==
    (Returned /\ Flag(Len(cSpace) - 1, Len(At(cSpace, 0)) - 1) = 1) => result = Failure

\* C3: for N >= 1 trajectories and every joint configuration, the cell the
\* builder stores at that configuration has blocked flag 1 if and only if
\* some unordered pair of robots collides (checkCollisions) at their states
\* of the configuration, and 0 otherwise.
C3_BlockedIffCollision ==
    pc = "idle" =>
        \A c \in Configurations(Len(robots)) :
            At(CellAt(cSpace, c), 0) =
                IF \E A1 \in 0 .. Len(c) - 1 : \E A2 \in A1 + 1 .. Len(c) - 1 :
                       checkCollisions(A1, At(c, A1), A2, At(c, A2))
                THEN 1
                ELSE 0

\* Three robots, and a cell that is blocked by a collision of the last two
\* robots alone, beside a free cell.
C3_Witness ==
    /\ pc = "idle"
    /\ Len(robots) = 3
    /\ \E c \in Configurations(3) :
          /\ At(CellAt(cSpace, c), 0) = 1
          /\ ~checkCollisions(0, At(c, 0), 1, At(c, 1))
          /\ ~checkCollisions(0, At(c, 0), 2, At(c, 2))
    /\ \E c \in Configurations(3) : At(CellAt(cSpace, c), 0) = 0

\* C4: on a space with no blocked cell, aStarSearch returns the goal, and
\* the length of the path, the g of the node being expanded at the return
\* plus one, is the Chebyshev distance from the start to the goal.
C4_FreeSpacePathIsChebyshev ==
    (Returned /\ NoBlocked) =>
        /\ result.kind = "list"
        /\ IsGoal(result.value)
        /\ q.g + 1 = Max(Len(cSpace) - 1, Len(At(cSpace, 0)) - 1)

\* C5: addPath applied to the value of a successful aStarSearch walks the
\* parent links back to the start and returns without raising an error.
C5_AddPathReturns == result.kind = "list" => raised = "none"

\* C6: a trajectory with positive speed and an arc length of at least
\* speed * 0.5 keeps both endpoints: the first point of its resampling is
\* the (x, y) of its first state and the last point the (x, y) of its last.
C6_EndpointsPreserved ==
    (pc = "resampled" /\ raised = "none") =>
        /\ At(At(newTrajectory, 0), 1) = At(At(At(robots, 0), 0), 1)
        /\ At(At(newTrajectory, 0), 2) = At(At(At(robots, 0), 0), 2)
        /\ At(At(newTrajectory, Len(newTrajectory) - 1), 1) =
               At(At(At(robots, 0), Len(At(robots, 0)) - 1), 1)
        /\ At(At(newTrajectory, Len(newTrajectory) - 1), 2) =
               At(At(At(robots, 0), Len(At(robots, 0)) - 1), 2)

\* C7: once createMatrix has returned, the blocked flag of every cell is the
\* value the builder computed for it, after any calls of aStarSearch and
\* addPath.
C7_BlockedNeverChanges ==
    pc # "createMatrix" =>
        \A c \in Cells : Flag(c[1], c[2]) = At(At(At(createMatrix, c[1]), c[2]), 0)

\* A space with a blocked cell, after two searches, the last of which
\* returned the goal, and a call of addPath on that value.
C7_Witness ==
    /\ pc = "idle"
    /\ searches >= 2
    /\ result.kind = "list"
    /\ raised # "none"
    /\ ~NoBlocked

\* C8: for every number of robots and every point of the grid, findNeighbors
\* returns exactly the tuples that differ from the point by -1, 0 or +1 in
\* each coordinate, the point excluded, whose every coordinate i is within
\* 0 .. len(trajectory_i) - 1.
C8_NeighborsExact ==
    point # <<>> =>
        LET expected ==
                {c \in {[k \in 1 .. Len(point) |-> point[k] + d[k]] :
                            d \in [1 .. Len(point) -> {-1, 0, 1}]} :
                    /\ c # point
                    /\ \A k \in 1 .. Len(point) : 0 <= c[k] /\ c[k] <= Len(robots[k]) - 1}
        IN /\ raised = "none"
           /\ Range(neighbors) = expected
           /\ Len(neighbors) = Cardinality(expected)

\* C9: at every iteration of the loop of aStarSearch, the node popped from
\* openList has an f that is minimal among the nodes of openList.
C9_PopsMinimalF ==
    (pc = "while" /\ openList # <<>>) =>
        \A k \in DOMAIN openList : FLeq(heappop(openList).item.f, openList[k].f)

\* C10: on a two-robot space a call of aStarSearch returns after finitely
\* many steps, and a successor is pushed to openList only when its f is
\* strictly smaller than the f of every node of openList and closedList
\* that has its coordinates.
C10_TerminatesStrictAdmission ==
    /\ [][(pc = "for" /\ openList' # openList) =>
            \A m \in Recorded :
                m.xy = Head(successors) =>
                    FLess(Successor(q, Head(successors)).f, m.f)]_vars
    /\ (pc \in {"while", "for"}) ~> (pc = "idle")

\* A search has returned after it admitted a second node for coordinates
\* that already had one.
C10_Witness ==
    /\ Returned
    /\ \E m \in Recorded, n \in Recorded : m.xy = n.xy /\ m # n
====
